---- MODULE Spec2Model ----
(***************************************************************************)
(* Model of "Sales Analysis.py": the cleaning pipeline (section 4 of the   *)
(* script) and the per-salesperson / per-priority aggregates (sections 7   *)
(* and 8), run statement by statement on a DataFrame.                      *)
(*                                                                         *)
(* A string is a sequence of code points, so that strip / lower /          *)
(* capitalize / replace are computed character by character.  A cell is a  *)
(* record [k, v]: k is "num", "str", "ts" (a parsed date), "na" (NaN/None) *)
(* or "nat" (NaT).  A frame is [cols, rows]: cols a sequence of            *)
(* [name, dtype], rows a sequence of [idx, cells], idx the pandas index    *)
(* label the row got when the file was read.                               *)
(*                                                                         *)
(* Numbers: sales values are integers.  Quartiles are kept in quarters     *)
(* (Q1, Q3, IQR hold 4 times the pandas value) and the bounds in eighths   *)
(* (lower_bound, upper_bound hold 8 times the pandas value), which makes   *)
(* linear interpolation and the factor 1.5 exact in integer arithmetic.    *)
(***************************************************************************)
EXTENDS Integers, Sequences, FiniteSets, TLC

VARIABLES raw, df, df_valid, pc, run, err,
          Q1, Q3, IQR, lower_bound, upper_bound,
          sales_by_person, sales_summary, totals,
          top_salesperson, top_sales_value,
          lowest_salesperson, lowest_sales_value,
          pre_outlier, first_clean

vars == <<raw, df, df_valid, pc, run, err, Q1, Q3, IQR, lower_bound,
          upper_bound, sales_by_person, sales_summary, totals,
          top_salesperson, top_sales_value, lowest_salesperson,
          lowest_sales_value, pre_outlier, first_clean>>

----------------------------------------------------------------------------
(* Bounds of the input tables *)

\* rows of a table drawn from Pool (four columns, the dataset's headers)
MaxRows == 3
\* rows of a table read under each of the header variants
MaxHdrRows == 1
\* rows of a table that has the extra numeric column Qty
MaxQtyRows == 4
\* rows of a table drawn from WidePool (enough rows for the IQR filter to act)
MaxWideRows == 6

----------------------------------------------------------------------------
(* Cells *)

NA == [k |-> "na", v |-> 0]
NaT == [k |-> "nat", v |-> 0]
Num(n) == [k |-> "num", v |-> n]
Str(s) == [k |-> "str", v |-> s]
Ts(y, m, d) == [k |-> "ts", v |-> <<y, m, d>>]

\* pandas isna(): NaN, None and NaT are all missing
IsNA(c) == c.k \in {"na", "nat"}

----------------------------------------------------------------------------
(* Strings of the script *)

sSalesPersonCol == <<115, 97, 108, 101, 115, 95, 112, 101, 114, 115, 111, 110>>   \* 'sales_person'
sValueCol == <<118, 97, 108, 117, 101, 95>>   \* 'value_'
sTotalSalesValueCol == <<116, 111, 116, 97, 108, 95, 115, 97, 108, 101, 115, 95, 118, 97, 108, 117, 101>>   \* 'total_sales_value'
sPriorityCol == <<112, 114, 105, 111, 114, 105, 116, 121>>   \* 'priority'
sDateCol == <<100, 97, 116, 101>>   \* 'date'
sPriorityNumericCol == <<112, 114, 105, 111, 114, 105, 116, 121, 95, 110, 117, 109, 101, 114, 105, 99>>   \* 'priority_numeric'
sLow == <<76, 111, 119>>   \* 'Low'
sMedium == <<77, 101, 100, 105, 117, 109>>   \* 'Medium'
sHigh == <<72, 105, 103, 104>>   \* 'High'
sCritical == <<67, 114, 105, 116, 105, 99, 97, 108>>   \* 'Critical'

\* the pound sign U+00A3 and a-circumflex U+00E2, the two characters the
\* script deletes from column names; the space and the underscore
PoundSign == 163
ACircumflex == 226
Space == 32
Underscore == 95

----------------------------------------------------------------------------
(* Python str methods, character by character *)

\* str.isspace() on the code points below U+0100
IsSpace(c) == c \in {9, 10, 11, 12, 13, 28, 29, 30, 31, 32, 133, 160}

\* str.lower() / str.upper() on ASCII and Latin-1 letters
LowerChar(c) ==
  IF c \in 65..90 \/ (c \in 192..222 /\ c # 215) THEN c + 32 ELSE c

UpperChar(c) ==
  IF c \in 97..122 \/ (c \in 224..254 /\ c # 247) THEN c - 32 ELSE c

StrLower(s) == [i \in 1..Len(s) |-> LowerChar(s[i])]

\* str.strip(): drop leading and trailing whitespace
StrStrip(s) ==
  LET keep == {i \in 1..Len(s) : ~IsSpace(s[i])}
  IN  IF keep = {} THEN <<>>
      ELSE LET lo == CHOOSE i \in keep : \A j \in keep : i <= j
               hi == CHOOSE i \in keep : \A j \in keep : j <= i
           IN  SubSeq(s, lo, hi)

\* str.capitalize(): first character upper-cased, the rest lower-cased
StrCapitalize(s) ==
  [i \in 1..Len(s) |-> IF i = 1 THEN UpperChar(s[i]) ELSE LowerChar(s[i])]

\* str.replace(old, new) for a one-character old; new is a string
RECURSIVE StrReplace(_, _, _)
StrReplace(s, old, new) ==
  IF s = <<>> THEN <<>>
  ELSE (IF Head(s) = old THEN new ELSE <<Head(s)>>)
         \o StrReplace(Tail(s), old, new)

\* Python's string order: by code point, a proper prefix first
StrLess(a, b) ==
  \E i \in 1..(Len(a) + 1) :
     /\ \A j \in 1..(i - 1) : j <= Len(b) /\ a[j] = b[j]
     /\ \/ i = Len(a) + 1 /\ Len(b) >= i
        \/ i <= Len(a) /\ i <= Len(b) /\ a[i] < b[i]

----------------------------------------------------------------------------
(* Sorting, median, quantile *)

InsertSorted(x, s) ==
  LET k == Cardinality({j \in 1..Len(s) : s[j] <= x})
  IN  SubSeq(s, 1, k) \o <<x>> \o SubSeq(s, k + 1, Len(s))

RECURSIVE SortNums(_)
SortNums(s) ==
  IF s = <<>> THEN <<>> ELSE InsertSorted(Head(s), SortNums(Tail(s)))

\* Series.median() of the present values: the middle value, or the mean of
\* the two middle values; NaN when nothing is present
Median(vals) ==
  LET s == SortNums(vals)
      n == Len(s)
  IN  IF n = 0 THEN NA
      ELSE IF n % 2 = 1 THEN Num(s[(n + 1) \div 2])
      ELSE Num((s[n \div 2] + s[n \div 2 + 1]) \div 2)

\* 4 * Series.quantile(k/4), linear interpolation between the two order
\* statistics around position (n - 1) * k / 4; NaN on an empty series
QuantileX4(vals, k) ==
  LET s == SortNums(vals)
      n == Len(s)
      pos4 == (n - 1) * k
      lo == pos4 \div 4 + 1
      hi == IF lo < n THEN lo + 1 ELSE lo
  IN  IF n = 0 THEN NA
      ELSE Num(4 * s[lo] + (pos4 % 4) * (s[hi] - s[lo]))

----------------------------------------------------------------------------
(* DataFrame helpers *)

NoFrame == [cols |-> <<>>, rows |-> <<>>]

HasCol(cols, name) == \E j \in 1..Len(cols) : cols[j].name = name

\* position of the column called name (0 when there is none)
ColIndex(cols, name) ==
  IF HasCol(cols, name)
  THEN CHOOSE j \in 1..Len(cols) :
         /\ cols[j].name = name
         /\ \A i \in 1..(j - 1) : cols[i].name # name
  ELSE 0

\* frame[name] of one row
CellOf(frame, r, name) == r.cells[ColIndex(frame.cols, name)]

\* the present (non-missing) values of column j, in row order
PresentValues(frame, j) ==
  LET present == SelectSeq(frame.rows, LAMBDA r : ~IsNA(r.cells[j]))
  IN  [i \in 1..Len(present) |-> present[i].cells[j].v]

\* df.select_dtypes(include=dtype).columns, as column positions
ColsOfDtype(frame, dtype) ==
  {j \in 1..Len(frame.cols) : frame.cols[j].dtype = dtype}

\* frame[name] = values: overwrite the column when it exists, append it
\* otherwise; values[i] is the new cell of row i
SetColumn(frame, name, dtype, values) ==
  IF HasCol(frame.cols, name)
  THEN LET j == ColIndex(frame.cols, name)
       IN  [cols |-> [frame.cols EXCEPT ![j] = [name |-> name, dtype |-> dtype]],
            rows |-> [i \in 1..Len(frame.rows) |->
                        [frame.rows[i] EXCEPT !.cells[j] = values[i]]]]
  ELSE [cols |-> Append(frame.cols, [name |-> name, dtype |-> dtype]),
        rows |-> [i \in 1..Len(frame.rows) |->
                    [frame.rows[i] EXCEPT !.cells = Append(@, values[i])]]]

\* pd.read_csv's column type: float64 when every value is missing or a
\* number, object when a string occurs or the file has no data row
InferDtype(rows, j) ==
  IF rows = <<>> THEN "object"
  ELSE IF \A i \in 1..Len(rows) : rows[i][j].k \in {"na", "num"}
       THEN "number" ELSE "object"

ReadCsv(table) ==
  [cols |-> [j \in 1..Len(table.header) |->
               [name |-> table.header[j], dtype |-> InferDtype(table.rows, j)]],
   rows |-> [i \in 1..Len(table.rows) |->
               [idx |-> i - 1, cells |-> table.rows[i]]]]

----------------------------------------------------------------------------
(* 4. Column names *)

NormalizeColumnName(s) ==
  StrReplace(
    StrReplace(
      StrReplace(StrLower(StrStrip(s)), PoundSign, <<>>),
      ACircumflex, <<>>),
    Space, <<Underscore>>)

NormalizeColumns(frame) ==
  [frame EXCEPT !.cols =
     [j \in 1..Len(frame.cols) |->
        [frame.cols[j] EXCEPT !.name = NormalizeColumnName(@)]]]

(* 4.1 Rename the value column, drop rows missing a required field *)

RenameValueColumn(frame) ==
  [frame EXCEPT !.cols =
     [j \in 1..Len(frame.cols) |->
        IF frame.cols[j].name = sValueCol
        THEN [frame.cols[j] EXCEPT !.name = sTotalSalesValueCol]
        ELSE frame.cols[j]]]

\* the subset=... labels exist, else dropna raises KeyError
HasRequiredColumns(frame) ==
  /\ HasCol(frame.cols, sSalesPersonCol)
  /\ HasCol(frame.cols, sTotalSalesValueCol)

DropNAPersonOnly(frame) ==
  [frame EXCEPT !.rows =
     SelectSeq(frame.rows,
               LAMBDA r : ~IsNA(CellOf(frame, r, sSalesPersonCol)))]

DropNA(frame) ==
  [frame EXCEPT !.rows =
     SelectSeq(frame.rows,
               LAMBDA r : /\ ~IsNA(CellOf(frame, r, sSalesPersonCol))
                          /\ ~IsNA(CellOf(frame, r, sTotalSalesValueCol)))]

(* 4.2 Missing numeric values: the column's median *)

\* fillna(fills): every missing cell of a column in DOMAIN fills gets that
\* column's fill value (a fill value that is itself NaN leaves the cell NaN)
FillColumns(frame, fills) ==
  [frame EXCEPT !.rows =
     [i \in 1..Len(frame.rows) |->
        [frame.rows[i] EXCEPT !.cells =
           [j \in 1..Len(frame.cols) |->
              IF j \in DOMAIN fills /\ @[j].k = "na" THEN fills[j] ELSE @[j]]]]]

ColumnMedian(frame, j) == Median(PresentValues(frame, j))

SalesValueMedian(frame, j) ==
  Median(PresentValues(frame, ColIndex(frame.cols, sTotalSalesValueCol)))

FillNumericWithSalesMedian(frame) ==
  FillColumns(frame, [j \in ColsOfDtype(frame, "number") |->
                        SalesValueMedian(frame, j)])

\* df[numeric_cols].fillna(df[numeric_cols].median()): each numeric column
\* with its own median
FillNumeric(frame) ==
  FillColumns(frame, [j \in ColsOfDtype(frame, "number") |->
                        ColumnMedian(frame, j)])

(* 4.3 Missing categorical values: the column's mode *)

\* Series.mode(): the most frequent present values, sorted; [0] is the
\* least of them.  mode() of a column with no present value is empty.
ModeIsEmptyNever(frame, j) == FALSE

ModeIsEmpty(frame, j) == Len(PresentValues(frame, j)) = 0

CountOf(vals, x) == Cardinality({i \in 1..Len(vals) : vals[i] = x})

ColumnMode(frame, j) ==
  LET vals == PresentValues(frame, j)
      distinct == {vals[i] : i \in 1..Len(vals)}
      modes == {x \in distinct :
                  \A y \in distinct : CountOf(vals, y) <= CountOf(vals, x)}
  IN  IF vals = <<>> THEN NA
      ELSE Str(CHOOSE x \in modes : \A y \in modes : y = x \/ StrLess(x, y))

\* df[col].mode()[0] raises KeyError for some object column
ModeRaises(frame) ==
  \E j \in ColsOfDtype(frame, "object") : ModeIsEmpty(frame, j)

FillCategorical(frame) ==
  FillColumns(frame, [j \in ColsOfDtype(frame, "object") |->
                        ColumnMode(frame, j)])

(* 4.4 Dates *)

IsDigit(c) == c \in 48..57

DaysInMonth(y, m) ==
  IF m \in {4, 6, 9, 11} THEN 30
  ELSE IF m # 2 THEN 31
  ELSE IF (y % 4 = 0 /\ y % 100 # 0) \/ y % 400 = 0 THEN 29 ELSE 28

\* pd.to_datetime(..., errors='coerce') of one cell: an ISO yyyy-mm-dd string
\* naming a real day parses, a timestamp stays, anything else becomes NaT.
\* (The strings of the input tables are ISO dates or not dates at all.)
ParseDate(c) ==
  IF c.k = "ts" THEN c
  ELSE IF c.k # "str" THEN NaT
  ELSE LET s == c.v
           shaped == /\ Len(s) = 10
                     /\ s[5] = 45 /\ s[8] = 45
                     /\ \A i \in {1, 2, 3, 4, 6, 7, 9, 10} : IsDigit(s[i])
           d(i) == s[i] - 48
           y == 1000 * d(1) + 100 * d(2) + 10 * d(3) + d(4)
           m == 10 * d(6) + d(7)
           dd == 10 * d(9) + d(10)
       IN  IF shaped /\ m \in 1..12 /\ dd \in 1..DaysInMonth(y, m)
           THEN Ts(y, m, dd) ELSE NaT

ToDatetime(frame) ==
  LET j == ColIndex(frame.cols, sDateCol)
  IN  [cols |-> [frame.cols EXCEPT ![j].dtype = "datetime"],
       rows |-> [i \in 1..Len(frame.rows) |->
                   [frame.rows[i] EXCEPT !.cells[j] = ParseDate(@)]]]

(* 4.5 Priority *)

priority_map == (sLow :> 1) @@ (sMedium :> 2) @@ (sHigh :> 3) @@ (sCritical :> 4)

\* .str.capitalize().str.strip() of one cell (a missing cell stays missing)
NormalizePriority(c) ==
  IF c.k = "str" THEN Str(StrStrip(StrCapitalize(c.v))) ELSE c

CapitalizePriorityColumn(frame) ==
  LET j == ColIndex(frame.cols, sPriorityCol)
  IN  [frame EXCEPT !.rows =
         [i \in 1..Len(frame.rows) |->
            [frame.rows[i] EXCEPT !.cells[j] = NormalizePriority(@)]]]

IsInAnything(c) == TRUE

\* Series.isin(priority_map.keys()) of one cell
IsInPriorityMap(c) == c.k = "str" /\ c.v \in DOMAIN priority_map

\* Series.map(priority_map) of one cell: NaN for a value that is no key
MapPriority(c) ==
  IF c.k = "str" /\ c.v \in DOMAIN priority_map
  THEN Num(priority_map[c.v]) ELSE NA

\* df[df['priority'].isin(...)].copy()
SelectValidPriority(frame) ==
  [frame EXCEPT !.rows =
     SelectSeq(frame.rows,
               LAMBDA r : IsInPriorityMap(CellOf(frame, r, sPriorityCol)))]

AppendColumn(frame, name, dtype, values) ==
  [cols |-> Append(frame.cols, [name |-> name, dtype |-> dtype]),
   rows |-> [i \in 1..Len(frame.rows) |->
               [frame.rows[i] EXCEPT !.cells = Append(@, values[i])]]]

\* df_valid['priority_numeric'] = df_valid['priority'].map(priority_map)
AssignColumn(frame, name, dtype, values) ==
  SetColumn(frame, name, dtype, values)

AttachPriorityNumeric(frame) ==
  AssignColumn(frame, sPriorityNumericCol, "number",
               [i \in 1..Len(frame.rows) |->
                  MapPriority(CellOf(frame, frame.rows[i], sPriorityCol))])

(* 4.6 Duplicates *)

\* drop_duplicates(): a row goes when an earlier row has the same cells in
\* every column (the index label is not compared); NaN equals NaN here
DropDuplicates(frame) ==
  [frame EXCEPT !.rows =
     LET keep == {i \in 1..Len(frame.rows) :
                    \A j \in 1..(i - 1) : frame.rows[j].cells # frame.rows[i].cells}
         F[i \in 0..Len(frame.rows)] ==
           IF i = 0 THEN <<>>
           ELSE IF i \in keep THEN Append(F[i - 1], frame.rows[i]) ELSE F[i - 1]
     IN  F[Len(frame.rows)]]

(* 4.7 Outliers *)

SalesValues(frame) ==
  PresentValues(frame, ColIndex(frame.cols, sTotalSalesValueCol))

OutlierSeriesOfDf == SalesValues(df)

\* the series the quartiles are taken of: df_valid['total_sales_value']
OutlierSeries == SalesValues(df_valid)

\* Q3 - Q1, in quarters (NaN when either is NaN)
Difference(a, b) == IF a.k = "num" /\ b.k = "num" THEN Num(a.v - b.v) ELSE NA

\* 8 * (q + sign * 1.5 * iqr), q and iqr in quarters
BoundX8(q, iqr, sign) ==
  IF q.k = "num" /\ iqr.k = "num" THEN Num(2 * q.v + sign * 3 * iqr.v) ELSE NA

\* value >= lower_bound and value <= upper_bound; False against NaN
InBounds(c, lo, hi) ==
  /\ c.k = "num" /\ lo.k = "num" /\ hi.k = "num"
  /\ 8 * c.v >= lo.v /\ 8 * c.v <= hi.v

ClipToBounds(frame, lo, hi) ==
  LET j == ColIndex(frame.cols, sTotalSalesValueCol)
  IN  [frame EXCEPT !.rows =
         [i \in 1..Len(frame.rows) |->
            [frame.rows[i] EXCEPT !.cells[j] =
               IF lo.k # "num" \/ hi.k # "num" THEN @
               ELSE IF 8 * @.v < lo.v THEN Num(lo.v \div 8)
               ELSE IF 8 * @.v > hi.v THEN Num(hi.v \div 8) ELSE @]]]

KeepInBounds(frame, lo, hi) ==
  [frame EXCEPT !.rows =
     SelectSeq(frame.rows,
               LAMBDA r : InBounds(CellOf(frame, r, sTotalSalesValueCol), lo, hi))]

----------------------------------------------------------------------------
(* 6.1 - 8: aggregates over the clean table *)

RECURSIVE SumSeq(_)
SumSeq(s) == IF s = <<>> THEN 0 ELSE Head(s) + SumSeq(Tail(s))

\* the rows of one group of groupby(name)
GroupRows(frame, name, key) ==
  SelectSeq(frame.rows, LAMBDA r : CellOf(frame, r, name).v = key)

\* the group keys of groupby(name): the values present in the column
GroupKeys(frame, name) ==
  {CellOf(frame, frame.rows[i], name).v :
     i \in {i \in 1..Len(frame.rows) :
              ~IsNA(CellOf(frame, frame.rows[i], name))}}

GroupValues(frame, name, key) ==
  LET g == GroupRows(frame, name, key)
      j == ColIndex(frame.cols, sTotalSalesValueCol)
  IN  [i \in 1..Len(g) |-> g[i].cells[j].v]

GroupSum(frame, name, key) == SumSeq(GroupValues(frame, name, key))

GroupCount(frame, name, key) == Len(GroupValues(frame, name, key))

\* the mean as the fraction num / den
GroupMean(frame, name, key) ==
  [num |-> SumSeq(GroupValues(frame, name, key)),
   den |-> Len(GroupValues(frame, name, key))]

Orderings(S) ==
  {s \in [1..Cardinality(S) -> S] :
     \A i, j \in 1..Cardinality(S) : i # j => s[i] # s[j]}

IsAscending(nums) ==
  \A i \in 1..(Len(nums) - 1) : nums[i] <= nums[i + 1]

\* sort_values(ascending=False): the order of equal values is not fixed by
\* the sort (quicksort); the same totals in the same group order are sorted
\* the same way both times, so one order serves both tables
IsDescending(nums) ==
  \A i \in 1..(Len(nums) - 1) : nums[i] >= nums[i + 1]

\* the orders of the salespeople sort_values(..., ascending=False) may give
SortedOrders(frame) ==
  {o \in Orderings(GroupKeys(frame, sSalesPersonCol)) :
     IsDescending([i \in 1..Len(o) |-> GroupSum(frame, sSalesPersonCol, o[i])])}

SalesByPerson(frame, order) ==
  [i \in 1..Len(order) |->
     [sales_person |-> order[i],
      total |-> GroupSum(frame, sSalesPersonCol, order[i])]]

SalesSummary(frame, order) ==
  [i \in 1..Len(order) |->
     [sales_person |-> order[i],
      total_sales |-> GroupSum(frame, sSalesPersonCol, order[i]),
      avg_sales |-> GroupMean(frame, sSalesPersonCol, order[i]),
      deal_count |-> GroupCount(frame, sSalesPersonCol, order[i])]]

\* groupby('priority').sum().reindex([...]): NaN for a level with no row
PriorityOrder == <<sCritical, sHigh, sMedium, sLow>>

Totals(frame) ==
  [i \in 1..Len(PriorityOrder) |->
     [priority |-> PriorityOrder[i],
      total |-> IF PriorityOrder[i] \in GroupKeys(frame, sPriorityCol)
                THEN Num(GroupSum(frame, sPriorityCol, PriorityOrder[i]))
                ELSE NA]]

\* Series.max() / idxmax(): the largest total, the first label holding it
SeriesMax(series) ==
  CHOOSE m \in {series[i].total : i \in 1..Len(series)} :
    \A i \in 1..Len(series) : series[i].total <= m

SeriesMin(series) ==
  CHOOSE m \in {series[i].total : i \in 1..Len(series)} :
    \A i \in 1..Len(series) : series[i].total >= m

FirstLabelOf(series, value) ==
  LET i == CHOOSE i \in 1..Len(series) :
             /\ series[i].total = value
             /\ \A j \in 1..(i - 1) : series[j].total # value
  IN  series[i].sales_person

IdxMax(series) == FirstLabelOf(series, SeriesMax(series))

IdxMin(series) == FirstLabelOf(series, SeriesMin(series))

----------------------------------------------------------------------------
(* The raw tables read from the file *)

hSalesPerson == <<83, 97, 108, 101, 115, 32, 80, 101, 114, 115, 111, 110>>   \* 'Sales Person'
hValue == <<86, 97, 108, 117, 101, 32, 163>>   \* 'Value \\xa3'
hPriority == <<80, 114, 105, 111, 114, 105, 116, 121>>   \* 'Priority'
hDate == <<68, 97, 116, 101>>   \* 'Date'
hQty == <<81, 116, 121>>   \* 'Qty'
hSalesPersonPadded == <<32, 32, 83, 65, 76, 69, 83, 32, 80, 69, 82, 83, 79, 78, 32>>   \* '  SALES PERSON '
hValueMojibake == <<86, 97, 108, 117, 101, 32, 194, 163>>   \* 'Value \\xc2\\xa3'
hPriorityUpper == <<80, 82, 73, 79, 82, 73, 84, 89>>   \* 'PRIORITY'
hDateLower == <<100, 97, 116, 101>>   \* 'date'
hAmount == <<65, 109, 111, 117, 110, 116>>   \* 'Amount'
hRep == <<82, 101, 112>>   \* 'Rep'
vAlice == <<65, 108, 105, 99, 101>>   \* 'Alice'
vBob == <<66, 111, 98>>   \* 'Bob'
vCarol == <<67, 97, 114, 111, 108>>   \* 'Carol'
vLow == <<76, 111, 119>>   \* 'Low'
vHigh == <<72, 105, 103, 104>>   \* 'High'
vMedium == <<77, 101, 100, 105, 117, 109>>   \* 'Medium'
vCritical == <<67, 114, 105, 116, 105, 99, 97, 108>>   \* 'Critical'
vLowLeadingSpace == <<32, 108, 111, 119>>   \* ' low'
vLowLower == <<108, 111, 119>>   \* 'low'
vCriticalUpperTrailing == <<67, 82, 73, 84, 73, 67, 65, 76, 32>>   \* 'CRITICAL '
vBanana == <<98, 97, 110, 97, 110, 97>>   \* 'banana'
vDate1 == <<50, 48, 50, 52, 45, 48, 49, 45, 48, 49>>   \* '2024-01-01'
vDate2 == <<50, 48, 50, 52, 45, 48, 49, 45, 48, 50>>   \* '2024-01-02'
vBadDate == <<50, 48, 50, 52, 45, 49, 51, 45, 52, 48>>   \* '2024-13-40'

\* the sales values of the tables: a tight range and one extreme value
cTypical == Num(100)
cNearby == Num(110)
cOther == Num(200)
cExtreme == Num(10000000)

DatasetHeader == <<hSalesPerson, hValue, hPriority, hDate>>

Headers ==
  { DatasetHeader,
    <<hSalesPersonPadded, hValueMojibake, hPriorityUpper, hDateLower>>,
    <<sSalesPersonCol, sTotalSalesValueCol, sPriorityCol, sDateCol>>,
    <<hSalesPerson, hAmount, hPriority, hDate>>,
    <<hRep, hValue, hPriority, hDate>> }

RowAlice == <<Str(vAlice), cTypical, Str(vLow), Str(vDate1)>>
RowBobNoValue == <<Str(vBob), NA, Str(vHigh), Str(vDate2)>>

Pool ==
  { RowAlice,
    RowBobNoValue,
    <<Str(vBob), cOther, Str(vLowLeadingSpace), Str(vDate2)>>,
    <<Str(vBob), cOther, Str(vCriticalUpperTrailing), Str(vBadDate)>>,
    <<NA, cNearby, Str(vMedium), Str(vDate1)>>,
    <<Str(vAlice), cOther, Str(vBanana), NA>>,
    <<Str(vCarol), cTypical, NA, Str(vDate1)>>,
    <<Str(vAlice), cTypical, Str(vLowLower), Str(vDate1)>> }

\* quantities are even, so the mean of two middle values is an integer
QtyPool ==
  << RowAlice \o <<Num(2)>>,
     <<Str(vBob), cTypical, Str(vHigh), Str(vDate1), NA>>,
     <<Str(vBob), NA, Str(vHigh), Str(vDate1), Num(8)>>,
     <<Str(vCarol), cTypical, Str(vBanana), Str(vDate1), Num(4)>>,
     <<Str(vAlice), cTypical, Str(vLow), Str(vDate1), NA>>,
     <<Str(vCarol), cExtreme, Str(vLow), Str(vDate1), Num(6)>> >>

WidePool ==
  << RowAlice,
     <<Str(vBob), cTypical, Str(vLow), Str(vDate1)>>,
     <<Str(vCarol), cTypical, Str(vLow), Str(vDate1)>>,
     <<Str(vAlice), cNearby, Str(vHigh), Str(vDate1)>>,
     <<Str(vBob), cExtreme, Str(vCritical), Str(vDate2)>> >>

\* the tables of up to n rows of a pool, rows in the pool's order (the order
\* of the rows matters to drop_duplicates alone, and the tables of Pool come
\* in every order)
OrderedSeqs(pool, n) ==
  UNION {{[i \in 1..k |-> pool[f[i]]] :
            f \in {g \in [1..k -> 1..Len(pool)] :
                     \A i \in 1..(k - 1) : g[i] <= g[i + 1]}} :
         k \in 0..n}

SeqsUpTo(S, n) == UNION {[1..k -> S] : k \in 0..n}

RawTables ==
  {[header |-> DatasetHeader, rows |-> rs] : rs \in SeqsUpTo(Pool, MaxRows)}
    \cup {[header |-> h, rows |-> rs] :
            h \in Headers, rs \in SeqsUpTo(Pool, MaxHdrRows)}
    \cup {[header |-> Append(DatasetHeader, hQty), rows |-> rs] :
            rs \in OrderedSeqs(QtyPool, MaxQtyRows)}
    \cup {[header |-> DatasetHeader, rows |-> rs] :
            rs \in OrderedSeqs(WidePool, MaxWideRows)}

----------------------------------------------------------------------------
(* The script, statement by statement *)

NotComputed == <<>>

Init ==
  /\ raw \in RawTables
  /\ df = ReadCsv(raw)
  /\ df_valid = NoFrame
  /\ pc = "normalize"
  /\ run = 1
  /\ err = "none"
  /\ Q1 = NA /\ Q3 = NA /\ IQR = NA
  /\ lower_bound = NA /\ upper_bound = NA
  /\ sales_by_person = NotComputed
  /\ sales_summary = NotComputed
  /\ totals = NotComputed
  /\ top_salesperson = NA /\ top_sales_value = NA
  /\ lowest_salesperson = NA /\ lowest_sales_value = NA
  /\ pre_outlier = NoFrame
  /\ first_clean = NoFrame

boundVars == <<Q1, Q3, IQR, lower_bound, upper_bound>>
reportVars == <<sales_by_person, sales_summary, totals, top_salesperson,
                top_sales_value, lowest_salesperson, lowest_sales_value>>
inputVars == <<raw, run, first_clean>>

\* an uncaught exception ends the script
Raise(exception) ==
  /\ pc' = "error"
  /\ err' = exception

\* df.columns = df.columns.str.strip().str.lower()...
NormalizeStep ==
  /\ pc = "normalize"
  /\ df' = NormalizeColumns(df)
  /\ pc' = "rename_drop"
  /\ UNCHANGED <<df_valid, err, boundVars, reportVars, inputVars, pre_outlier>>

\* if 'value_' in df.columns: rename; df = df.dropna(subset=[...])
RenameDropStep ==
  /\ pc = "rename_drop"
  /\ IF HasRequiredColumns(RenameValueColumn(df))
     THEN /\ df' = DropNA(RenameValueColumn(df))
          /\ pc' = "fill_numeric"
          /\ UNCHANGED err
     ELSE /\ df' = RenameValueColumn(df)
          /\ Raise("KeyError")
  /\ UNCHANGED <<df_valid, boundVars, reportVars, inputVars, pre_outlier>>

\* df[numeric_cols] = df[numeric_cols].fillna(df[numeric_cols].median())
FillNumericStep ==
  /\ pc = "fill_numeric"
  /\ df' = FillNumeric(df)
  /\ pc' = "fill_categorical"
  /\ UNCHANGED <<df_valid, err, boundVars, reportVars, inputVars, pre_outlier>>

\* for col in categorical_cols: df[col] = df[col].fillna(df[col].mode()[0])
FillCategoricalStep ==
  /\ pc = "fill_categorical"
  /\ IF ModeRaises(df)
     THEN /\ Raise("KeyError")
          /\ UNCHANGED df
     ELSE /\ df' = FillCategorical(df)
          /\ pc' = "to_datetime"
          /\ UNCHANGED err
  /\ UNCHANGED <<df_valid, boundVars, reportVars, inputVars, pre_outlier>>

\* df['date'] = pd.to_datetime(df['date'], errors='coerce')
ToDatetimeStep ==
  /\ pc = "to_datetime"
  /\ IF HasCol(df.cols, sDateCol)
     THEN /\ df' = ToDatetime(df)
          /\ pc' = "priority"
          /\ UNCHANGED err
     ELSE /\ Raise("KeyError")
          /\ UNCHANGED df
  /\ UNCHANGED <<df_valid, boundVars, reportVars, inputVars, pre_outlier>>

\* df['priority'] = ...capitalize().strip(); df_valid = df[isin].copy();
\* df_valid['priority_numeric'] = df_valid['priority'].map(priority_map)
PriorityStep ==
  /\ pc = "priority"
  /\ IF ~HasCol(df.cols, sPriorityCol)
     THEN /\ Raise("KeyError")
          /\ UNCHANGED <<df, df_valid>>
     ELSE IF df.cols[ColIndex(df.cols, sPriorityCol)].dtype # "object"
     THEN \* the .str accessor exists on string columns only
          /\ Raise("AttributeError")
          /\ UNCHANGED <<df, df_valid>>
     ELSE /\ df' = CapitalizePriorityColumn(df)
          /\ df_valid' = AttachPriorityNumeric(SelectValidPriority(df'))
          /\ pc' = "drop_duplicates"
          /\ UNCHANGED err
  /\ UNCHANGED <<boundVars, reportVars, inputVars, pre_outlier>>

\* df_valid = df_valid.drop_duplicates()
DropDuplicatesStep ==
  /\ pc = "drop_duplicates"
  /\ df_valid' = DropDuplicates(df_valid)
  /\ pc' = "outlier"
  /\ UNCHANGED <<df, err, boundVars, reportVars, inputVars, pre_outlier>>

\* Q1, Q3, IQR, the two bounds, and the rows inside them
OutlierStep ==
  /\ pc = "outlier"
  /\ Q1' = QuantileX4(OutlierSeries, 1)
  /\ Q3' = QuantileX4(OutlierSeries, 3)
  /\ IQR' = Difference(Q3', Q1')
  /\ lower_bound' = BoundX8(Q1', IQR', -1)
  /\ upper_bound' = BoundX8(Q3', IQR', 1)
  /\ df_valid' = KeepInBounds(df_valid, lower_bound', upper_bound')
  /\ pre_outlier' = df_valid
  /\ pc' = "stats"
  /\ UNCHANGED <<df, err, reportVars, inputVars>>

\* sections 5 to 8: the aggregates and the top and lowest performers;
\* idxmax() of an empty series raises ValueError
StatsStep ==
  /\ pc = "stats"
  /\ IF df_valid.rows = <<>>
     THEN /\ Raise("ValueError")
          /\ UNCHANGED reportVars
     ELSE /\ \E order \in SortedOrders(df_valid) :
               /\ sales_by_person' = SalesByPerson(df_valid, order)
               /\ sales_summary' = SalesSummary(df_valid, order)
          /\ top_salesperson' = Str(IdxMax(sales_by_person'))
          /\ top_sales_value' = Num(SeriesMax(sales_by_person'))
          /\ lowest_salesperson' = Str(IdxMin(sales_by_person'))
          /\ lowest_sales_value' = Num(SeriesMin(sales_by_person'))
          /\ totals' = Totals(df_valid)
          /\ pc' = "done"
          /\ UNCHANGED err
  /\ UNCHANGED <<df, df_valid, boundVars, inputVars, pre_outlier>>

\* the cleaning statements applied to their own output: the clean table
\* becomes the table the next run starts from
ReRun ==
  /\ pc = "stats"
  /\ run = 1
  /\ run' = 2
  /\ first_clean' = df_valid
  /\ df' = df_valid
  /\ pc' = "normalize"
  /\ UNCHANGED <<raw, df_valid, err, boundVars, reportVars, pre_outlier>>

Next ==
  \/ NormalizeStep
  \/ RenameDropStep
  \/ FillNumericStep
  \/ FillCategoricalStep
  \/ ToDatetimeStep
  \/ PriorityStep
  \/ DropDuplicatesStep
  \/ OutlierStep
  \/ StatsStep
  \/ ReRun

Spec == Init /\ [][Next]_vars

----------------------------------------------------------------------------
(* Vocabulary of the properties *)

\* the file as read, its columns under the names the script gives them
RawFrame == RenameValueColumn(NormalizeColumns(ReadCsv(raw)))

\* the position, in the file, of the column the script calls name
RawColIndex(name) ==
  ColIndex([j \in 1..Len(raw.header) |->
              [name |-> LET n == NormalizeColumnName(raw.header[j])
                        IN  IF n = sValueCol THEN sTotalSalesValueCol ELSE n]],
           name)

\* the cell the file holds for the row with index label idx
RawCellOf(idx, name) == raw.rows[idx + 1][RawColIndex(name)]

Indices(frame) == {frame.rows[i].idx : i \in 1..Len(frame.rows)}

Cleaned == pc \in {"stats", "done"}

\* the index labels grow along the table
InFileOrder(frame) ==
  \A i \in 1..(Len(frame.rows) - 1) : frame.rows[i].idx < frame.rows[i + 1].idx

----------------------------------------------------------------------------
(* C1: once the outlier filter has run, every row of df_valid has its      *)
(* total_sales_value inside [Q1 - 1.5 IQR, Q3 + 1.5 IQR], the quartiles    *)
(* taken over the table as it stood just before the filter (required       *)
(* fields present, priorities valid, no duplicate row), and every row of   *)
(* that table whose value is inside the interval is still there.           *)
C1_OutlierBounds ==
  Cleaned =>
    LET vals == SalesValues(pre_outlier)
        q1 == QuantileX4(vals, 1)
        q3 == QuantileX4(vals, 3)
        inside(r) ==
          LET v == CellOf(pre_outlier, r, sTotalSalesValueCol).v
          IN  /\ vals # <<>>
              /\ 8 * v >= 2 * q1.v - 3 * (q3.v - q1.v)
              /\ 8 * v <= 2 * q3.v + 3 * (q3.v - q1.v)
    IN  /\ \A i \in 1..Len(pre_outlier.rows) :
             /\ ~IsNA(CellOf(pre_outlier, pre_outlier.rows[i], sSalesPersonCol))
             /\ CellOf(pre_outlier, pre_outlier.rows[i], sTotalSalesValueCol).k = "num"
             /\ CellOf(pre_outlier, pre_outlier.rows[i], sPriorityCol).v
                  \in DOMAIN priority_map
             /\ \A j \in 1..(i - 1) :
                  pre_outlier.rows[j].cells # pre_outlier.rows[i].cells
        /\ df_valid.cols = pre_outlier.cols
        /\ \A i \in 1..Len(pre_outlier.rows) :
             inside(pre_outlier.rows[i])
               <=> \E k \in 1..Len(df_valid.rows) :
                     df_valid.rows[k] = pre_outlier.rows[i]
        /\ \A k \in 1..Len(df_valid.rows) :
             \E i \in 1..Len(pre_outlier.rows) :
               df_valid.rows[k] = pre_outlier.rows[i]

\* the filter has removed the extreme value and kept the others
C1_Witness ==
  /\ pc = "stats" /\ run = 1
  /\ Len(df_valid.rows) >= 3
  /\ Len(df_valid.rows) < Len(pre_outlier.rows)
  /\ \E i \in 1..Len(pre_outlier.rows) :
       CellOf(pre_outlier, pre_outlier.rows[i], sTotalSalesValueCol) = cExtreme

\* an extreme value stays when the values are spread widely enough
C1_WideSpreadKept ==
  /\ pc = "stats" /\ run = 1
  /\ \E k \in 1..Len(df_valid.rows) :
       CellOf(df_valid, df_valid.rows[k], sTotalSalesValueCol) = cExtreme

(* C2, as stated: the second run of the cleaning statements ends with the  *)
(* table it started from (same columns, same rows, same values).           *)
C2_Idempotent ==
  (run = 2 /\ Cleaned) => df_valid = first_clean

(* C2, amended: when the clean table has a row, the second run raises      *)
(* nothing, keeps the columns, and leaves the table as it is up to the     *)
(* outlier filter (the table that filter is given is the clean table);     *)
(* the second outlier filter, its quartiles taken anew over the rows       *)
(* already filtered, only removes rows and changes no value.               *)
C2_StableUpToOutlierFilter ==
  (run = 2 /\ first_clean.rows # <<>>) =>
    /\ err = "none"
    /\ pc = "outlier" => df_valid = first_clean
    /\ Cleaned =>
         /\ pre_outlier = first_clean
         /\ df_valid.cols = first_clean.cols
         /\ df_valid.rows # <<>>
         /\ InFileOrder(df_valid)
         /\ \A k \in 1..Len(df_valid.rows) :
              \E i \in 1..Len(first_clean.rows) :
                df_valid.rows[k] = first_clean.rows[i]

\* the second run has removed a row of the clean table
C2_Witness ==
  /\ run = 2 /\ pc = "stats"
  /\ Len(df_valid.rows) < Len(first_clean.rows)

(* C3: when cleaning completes, no row of the clean table has a missing    *)
(* sales_person, total_sales_value, priority or priority_numeric.          *)
C3_NoNulls ==
  Cleaned =>
    \A i \in 1..Len(df_valid.rows) :
      \A name \in {sSalesPersonCol, sTotalSalesValueCol, sPriorityCol,
                   sPriorityNumericCol} :
        /\ HasCol(df_valid.cols, name)
        /\ ~IsNA(CellOf(df_valid, df_valid.rows[i], name))

\* a clean table with a row whose priority was missing in the file, of a
\* file that also held an unmapped priority or a row with no salesperson
C3_Witness ==
  /\ pc = "done" /\ run = 1
  /\ \E i \in 1..Len(df_valid.rows) :
       IsNA(RawCellOf(df_valid.rows[i].idx, sPriorityCol))
  /\ \E idx \in 0..(Len(raw.rows) - 1) :
       \/ IsNA(RawCellOf(idx, sSalesPersonCol))
       \/ RawCellOf(idx, sPriorityCol) = Str(vBanana)

\* a priority value that, stripped of surrounding whitespace and compared
\* without regard to case, is the level key
MatchesLevel(s, key) == StrLower(StrStrip(s)) = StrLower(key)

(* C4: a row whose priority the file gives is retained by the priority     *)
(* filter exactly when that value, surrounding whitespace stripped and     *)
(* case ignored, is one of Low, Medium, High, Critical, and then gets      *)
(* priority_numeric 1, 2, 3, 4 respectively; any other value is dropped.   *)
C4_PriorityFilter ==
  (run = 1 /\ pc = "drop_duplicates") =>
    \A i \in 1..Len(df.rows) :
      LET orig == RawCellOf(df.rows[i].idx, sPriorityCol)
          kept == {k \in 1..Len(df_valid.rows) :
                     df_valid.rows[k].idx = df.rows[i].idx}
      IN  orig.k = "str" =>
            /\ kept # {} <=> \E key \in DOMAIN priority_map :
                               MatchesLevel(orig.v, key)
            /\ \A k \in kept : \A key \in DOMAIN priority_map :
                 MatchesLevel(orig.v, key) =>
                   CellOf(df_valid, df_valid.rows[k], sPriorityNumericCol)
                     = Num(priority_map[key])

\* the table of the scenario: Alice, Bob with no sales value, Alice again
Scenario ==
  [header |-> DatasetHeader, rows |-> <<RowAlice, RowBobNoValue, RowAlice>>]

(* C5, as stated: the scenario's clean table has exactly two rows, one     *)
(* Alice and one Bob whose missing sales value was imputed with 100.       *)
C5_ScenarioTwoRows ==
  (raw = Scenario /\ run = 1 /\ Cleaned) =>
    /\ Len(df_valid.rows) = 2
    /\ \E k \in 1..Len(df_valid.rows) :
         /\ CellOf(df_valid, df_valid.rows[k], sSalesPersonCol) = Str(vBob)
         /\ CellOf(df_valid, df_valid.rows[k], sTotalSalesValueCol) = cTypical

(* C5, amended: the scenario's clean table has exactly one row, Alice's    *)
(* first (value 100, Low, 1): Bob's row is dropped for its missing sales   *)
(* value and the second Alice row as a duplicate; in general a row whose   *)
(* total_sales_value is missing is gone once the required-field drop has   *)
(* run, before anything is imputed.                                        *)
C5_ScenarioOneRow ==
  /\ (raw = Scenario /\ run = 1 /\ Cleaned) =>
       /\ Len(df_valid.rows) = 1
       /\ df_valid.rows[1].idx = 0
       /\ CellOf(df_valid, df_valid.rows[1], sSalesPersonCol) = Str(vAlice)
       /\ CellOf(df_valid, df_valid.rows[1], sTotalSalesValueCol) = cTypical
       /\ CellOf(df_valid, df_valid.rows[1], sPriorityCol) = Str(sLow)
       /\ CellOf(df_valid, df_valid.rows[1], sPriorityNumericCol) = Num(1)
  /\ (run = 1 /\ pc \notin {"normalize", "rename_drop", "error"}) =>
       \A i \in 1..Len(df.rows) :
         ~IsNA(RawCellOf(df.rows[i].idx, sTotalSalesValueCol))

\* the scenario, cleaned
C5_Witness == raw = Scenario /\ run = 1 /\ pc = "done"

\* no data row, or no sales_person / total_sales_value column once the
\* columns are normalized and renamed
Malformed == raw.rows = <<>> \/ ~HasRequiredColumns(RawFrame)

(* C6: on a table with no rows, or with no sales_person or no              *)
(* total_sales_value column after renaming, the script never gets past     *)
(* the imputation statements: it ends in an exception (KeyError), and no   *)
(* quartile, bound or aggregate is ever computed.                          *)
C6_MalformedAborts ==
  (run = 1 /\ Malformed) =>
    /\ pc \in {"normalize", "rename_drop", "fill_numeric",
               "fill_categorical", "error"}
    /\ pc = "error" => err = "KeyError"
    /\ pc = "fill_categorical" => ModeRaises(df)
    /\ Q1 = NA /\ Q3 = NA /\ IQR = NA
    /\ lower_bound = NA /\ upper_bound = NA
    /\ sales_by_person = NotComputed /\ sales_summary = NotComputed
    /\ totals = NotComputed
    /\ top_salesperson = NA /\ lowest_salesperson = NA
    /\ df_valid = NoFrame

\* a table with both required columns and no row has ended in the exception
C6_Witness ==
  /\ raw.rows = <<>> /\ HasRequiredColumns(RawFrame)
  /\ pc = "error" /\ err = "KeyError"

\* a table with rows and no total_sales_value column has ended likewise
C6_MissingColumnAborted ==
  /\ raw.rows # <<>> /\ ~HasCol(RawFrame.cols, sTotalSalesValueCol)
  /\ pc = "error" /\ err = "KeyError"

\* every row of the file has its two required fields
NoRowDefect ==
  \A idx \in 0..(Len(raw.rows) - 1) :
    /\ ~IsNA(RawCellOf(idx, sSalesPersonCol))
    /\ ~IsNA(RawCellOf(idx, sTotalSalesValueCol))

(* C7: on a table with at least one row and both required columns (and,    *)
(* here, no row lacking a required field, so that only value-level defects *)
(* are left), no cleaning statement raises, whatever other values are      *)
(* missing or malformed.                                                   *)
C7_NeverRaises ==
  (run = 1 /\ raw.rows # <<>> /\ HasRequiredColumns(RawFrame) /\ NoRowDefect) =>
    ~(pc = "error" /\ err \in {"KeyError", "AttributeError"})

\* the positions of the clean rows of one salesperson / one priority
RowsWhere(name, key) ==
  {i \in 1..Len(df_valid.rows) : CellOf(df_valid, df_valid.rows[i], name).v = key}

RECURSIVE ValueSum(_)
ValueSum(rowset) ==
  IF rowset = {} THEN 0
  ELSE LET i == CHOOSE i \in rowset : TRUE
       IN  CellOf(df_valid, df_valid.rows[i], sTotalSalesValueCol).v
             + ValueSum(rowset \ {i})

RECURSIVE TotalOver(_, _)
TotalOver(table, positions) ==
  IF positions = {} THEN 0
  ELSE LET i == CHOOSE i \in positions : TRUE
       IN  table[i] + TotalOver(table, positions \ {i})

CleanPersons ==
  {CellOf(df_valid, df_valid.rows[i], sSalesPersonCol).v :
     i \in 1..Len(df_valid.rows)}

(* C8: once the aggregates are computed, the per-salesperson summary has   *)
(* one entry per salesperson of the clean table with total = sum,          *)
(* average = mean and count = number of that person's clean rows, in       *)
(* non-increasing order of total; the top performer's total is >= every    *)
(* total and the lowest performer's is <= every total; and the             *)
(* per-salesperson totals add up to the per-priority totals, the sum of    *)
(* all clean sales values.                                                 *)
C8_Summary ==
  pc = "done" =>
    /\ Len(sales_summary) = Cardinality(CleanPersons)
    /\ Len(sales_by_person) = Cardinality(CleanPersons)
    /\ {sales_summary[i].sales_person : i \in 1..Len(sales_summary)} = CleanPersons
    /\ {sales_by_person[i].sales_person : i \in 1..Len(sales_by_person)} = CleanPersons
    /\ \A i \in 1..Len(sales_summary) :
         LET e == sales_summary[i]
             mine == RowsWhere(sSalesPersonCol, e.sales_person)
         IN  /\ e.total_sales = ValueSum(mine)
             /\ e.deal_count = Cardinality(mine)
             /\ e.avg_sales.den > 0
             /\ e.avg_sales.num * e.deal_count = e.total_sales * e.avg_sales.den
    /\ \A i \in 1..Len(sales_by_person) :
         sales_by_person[i].total
           = ValueSum(RowsWhere(sSalesPersonCol, sales_by_person[i].sales_person))
    /\ \A i \in 1..(Len(sales_summary) - 1) :
         sales_summary[i].total_sales >= sales_summary[i + 1].total_sales
    /\ \A i \in 1..(Len(sales_by_person) - 1) :
         sales_by_person[i].total >= sales_by_person[i + 1].total
    /\ \A p \in CleanPersons :
         /\ top_sales_value.v >= ValueSum(RowsWhere(sSalesPersonCol, p))
         /\ lowest_sales_value.v <= ValueSum(RowsWhere(sSalesPersonCol, p))
    /\ top_sales_value.v = ValueSum(RowsWhere(sSalesPersonCol, top_salesperson.v))
    /\ lowest_sales_value.v
         = ValueSum(RowsWhere(sSalesPersonCol, lowest_salesperson.v))
    /\ LET byPerson == [i \in 1..Len(sales_summary) |-> sales_summary[i].total_sales]
           present == {i \in 1..Len(totals) : totals[i].total.k = "num"}
           byPriority == [i \in 1..Len(totals) |-> totals[i].total.v]
       IN  /\ TotalOver(byPerson, 1..Len(sales_summary))
                = TotalOver(byPriority, present)
           /\ TotalOver(byPerson, 1..Len(sales_summary))
                = ValueSum(1..Len(df_valid.rows))

\* aggregates of a clean table with three salespeople, two of them with the
\* same total, and two priorities
C8_Witness ==
  /\ pc = "done"
  /\ Len(sales_summary) = 3
  /\ sales_summary[1].total_sales > sales_summary[2].total_sales
  /\ sales_summary[2].total_sales = sales_summary[3].total_sales
  /\ sales_summary[1].deal_count > 1
  /\ Cardinality({i \in 1..Len(totals) : totals[i].total.k = "num"}) = 2

\* the median the file's column has over the rows that carry both required
\* fields
MedianOfSurvivors(name) ==
  LET jp == RawColIndex(sSalesPersonCol)
      jv == RawColIndex(sTotalSalesValueCol)
      jn == RawColIndex(name)
      F[n \in 0..Len(raw.rows)] ==
        IF n = 0 THEN <<>>
        ELSE IF /\ ~IsNA(raw.rows[n][jp]) /\ ~IsNA(raw.rows[n][jv])
                /\ raw.rows[n][jn].k = "num"
             THEN Append(F[n - 1], raw.rows[n][jn].v) ELSE F[n - 1]
  IN  Median(F[Len(raw.rows)])

(* C9: from the numeric imputation on, a cell of a numeric column that was *)
(* missing in the file holds the median of that column's present values    *)
(* over exactly the rows that survived the required-field drop (rows the   *)
(* priority filter, the deduplication or the outlier filter remove later   *)
(* included, rows dropped for a missing required field excluded), each     *)
(* column with its own median.                                             *)
C9_MedianOfSurvivors ==
  (run = 1 /\ HasRequiredColumns(RawFrame)
     /\ pc \notin {"normalize", "rename_drop", "fill_numeric"}) =>
    \A frame \in {df, df_valid} :
      \A j \in ColsOfDtype(frame, "number") :
        HasCol(RawFrame.cols, frame.cols[j].name) =>
          LET jraw == RawColIndex(frame.cols[j].name)
              missing == {i \in 1..Len(frame.rows) :
                            raw.rows[frame.rows[i].idx + 1][jraw].k = "na"}
          IN  missing # {} =>
                LET median == MedianOfSurvivors(frame.cols[j].name)
                IN  \A i \in missing : frame.rows[i].cells[j] = median

\* a clean row whose quantity was missing holds 4, the one quantity among
\* the surviving rows, in a file where a row dropped for its missing sales
\* value holds 8 and the row holding 4 is removed later by the priority
\* filter (the median over all rows would be 6, over the clean rows nothing)
C9_Witness ==
  /\ pc = "done" /\ run = 1
  /\ Len(raw.header) = 5 /\ Len(raw.rows) = 3
  /\ \E i \in 1..Len(df_valid.rows) :
       /\ RawCellOf(df_valid.rows[i].idx, NormalizeColumnName(hQty)) = NA
       /\ df_valid.rows[i].cells[5] = Num(4)
  /\ \E idx \in 0..(Len(raw.rows) - 1) :
       /\ IsNA(RawCellOf(idx, sTotalSalesValueCol))
       /\ RawCellOf(idx, NormalizeColumnName(hQty)) = Num(8)
  /\ \E idx \in 0..(Len(raw.rows) - 1) :
       /\ RawCellOf(idx, NormalizeColumnName(hQty)) = Num(4)
       /\ idx \notin Indices(df_valid)

(* C10: in the first run every row of df, and of df_valid, carries the     *)
(* total_sales_value the file gives for its index label, no row with a     *)
(* missing total_sales_value is left when the numeric imputation runs, and *)
(* the rows stay in the order of the file.                                 *)
C10_ValuesUntouched ==
  run = 1 =>
    \A frame \in {df, df_valid} :
      /\ InFileOrder(frame)
      /\ Indices(frame) \subseteq 0..(Len(raw.rows) - 1)
      /\ HasCol(frame.cols, sTotalSalesValueCol) =>
           LET j == ColIndex(frame.cols, sTotalSalesValueCol)
               jraw == RawColIndex(sTotalSalesValueCol)
           IN  \A i \in 1..Len(frame.rows) :
                 /\ frame.rows[i].cells[j] = raw.rows[frame.rows[i].idx + 1][jraw]
                 /\ pc \notin {"normalize", "rename_drop", "error"} =>
                      frame.rows[i].cells[j].k = "num"

\* a clean table of a file that also held a row with no sales value, a row
\* with an unmapped priority and a duplicate row
C10_Witness ==
  /\ pc = "done" /\ run = 1
  /\ df_valid.rows # <<>>
  /\ Len(df_valid.rows) + 3 = Len(raw.rows)
  /\ \E idx \in 0..(Len(raw.rows) - 1) :
       IsNA(RawCellOf(idx, sTotalSalesValueCol))
  /\ \E idx \in 0..(Len(raw.rows) - 1) :
       RawCellOf(idx, sPriorityCol) = Str(vBanana)
  /\ Len(pre_outlier.rows) + 1 < Len(df.rows)

====
